---- MODULE Spec2Model ----
(***************************************************************************)
(* Model of the strategy hooks of user_data/strategies:                    *)
(*   ComplexStrategy, SampleStrategyEnhanced  (custom_stoploss,            *)
(*   populate_entry_trend, populate_exit_trend) and FlexibleStrategy       *)
(*   (populate_entry_trend, populate_exit_trend).                          *)
(*                                                                         *)
(* Numbers.  Fractions (stoploss, profit ratio, slippage, fee rate,        *)
(* min_profit) are integers scaled by Scale = 10^4, the four decimals of   *)
(* the DecimalParameters.  Rates and amounts are integers, so the adjusted *)
(* profit of ComplexStrategy is an integer number of 1/Scale currency      *)
(* units, computed exactly (the code computes it in binary floating        *)
(* point).  A float that may be undefined is a sequence: NaN is << >> and  *)
(* the number v is <<v>>; every comparison with NaN is FALSE as in pandas. *)
(* The rates below are chosen so that the sign of the adjusted profit and  *)
(* its order to min_profit are the same in exact and in floating point     *)
(* arithmetic.                                                             *)
(***************************************************************************)
EXTENDS Integers, Sequences, FiniteSets, TLC

\* ------------------------------------------------------------------ bounds
TickMinutes == 15
MaxElapsed == 60
MaxAmount == 2
MaxClose == 2
MaxEmaLevel == 1
MaxBand == 3
MaxIndex == 34
MaxHalfStake == 3

\* ------------------------------------------------------ program constants
Scale == 10000
StoplossDefault == -300
ExitNow == 0
TimeoutLow == 30
TimeoutDefault == 60
MinProfitComplex == 75
MinProfitSample == 50
SlippageLow == 0
SlippageDefault == 10
MakerFee == 10
TakerFee == 10
EmaPeriod == 50
RsiPeriod == 14
TemaPeriod == 9
BbWindow == 20
AdxPeriod == 14
MacdSlow == 26
MacdSignal == 9
VolumeWindow == 14
BuyRsiHigh == 50
SellRsiLow == 50
SellRsiDefault == 70
FlexBuyRsiDefault == 45
FlexBuyRsiHigh == 60
FlexSellRsiLow == 50
FlexSellRsiDefault == 70
AdxDefault == 20
MacdHistLow == 0
MacdHistDefault == 1
VolumeThresholdDefault == 1
StakeRsiThreshold == 50
FlexStoplossDefault == -1000
FlexStoplossWide == -2000
ProfitHigh == 1000
ProfitLow == 500

\* ------------------------------------------------------------- the inputs
OpenRates == {100, 498, 999}
CurrentRates == {99, 110, 500, 1001}
Profits == {-100, 0, 30, 50, 100}

NaN == << >>
IsNaN(x) == x = NaN
Num(v) == <<v>>
\* pandas / numpy comparison of two floats: FALSE when either is NaN
Gt(a, b) == ~IsNaN(a) /\ ~IsNaN(b) /\ a[1] > b[1]
Lt(a, b) == ~IsNaN(a) /\ ~IsNaN(b) /\ a[1] < b[1]
Le(a, b) == ~IsNaN(a) /\ ~IsNaN(b) /\ a[1] <= b[1]

(***************************************************************************)
(* What dp.get_pair_dataframe(pair, timeframe) yields: the call raises, or *)
(* returns None, or returns a dataframe of `bars` rows (0 rows: empty)     *)
(* whose last close is `close`; `level` is the value an EMA over the last  *)
(* EmaPeriod rows has at the last row once that many rows exist, and       *)
(* `has_ema` says whether the frame carries the precomputed EMA column.    *)
(***************************************************************************)
Frame(st, b, c, l, h) ==
    [status |-> st, bars |-> b, close |-> c, level |-> l, has_ema |-> h]
NotFetched == Frame("notfetched", 0, 0, 0, FALSE)
Raises == Frame("raise", 0, 0, 0, FALSE)
NoneFrame == Frame("none", 0, 0, 0, FALSE)
EmptyFrame == Frame("ok", 0, 0, 0, FALSE)
DataFrames ==
    { Frame("ok", b, c, l, h) :
        b \in {EmaPeriod - 1, EmaPeriod}, c \in 1..MaxClose,
        l \in 1..MaxEmaLevel, h \in BOOLEAN }
Frames == {Raises, NoneFrame, EmptyFrame} \cup DataFrames

\* the open position and its custom_stoploss calls
VARIABLES strategy, params, trade, elapsed, state, last
\* one row of an analyzed dataframe and the two signal columns at that row
VARIABLES signal_strategy, thresholds, index, row, enter_long, exit_long

stop_vars == <<strategy, params, trade, elapsed, state, last>>
signal_vars == <<signal_strategy, thresholds, index, row, enter_long, exit_long>>
\* one call of a FlexibleStrategy hook: which hook, its arguments with what
\* the data provider holds, and the value returned
VARIABLES flex_hook, flex_in, flex_out

flex_vars == <<flex_hook, flex_in, flex_out>>
vars == <<stop_vars, signal_vars, flex_vars>>

\* no FlexibleStrategy hook is being called
NoFlexible ==
    /\ flex_hook = "none"
    /\ flex_in = << >>
    /\ flex_out = NaN

\* talib EMA(dataframe, timeperiod) at the last row: undefined (NaN) while the
\* frame has fewer rows than the period
TalibEMA(df, timeperiod) == IF df.bars < timeperiod THEN NaN ELSE Num(df.level)

\* a trend lookup either fails (an exception is raised inside the try block)
\* or yields the boolean ema_trend
Failed == [ok |-> FALSE, ema_trend |-> FALSE]
Trend(b) == [ok |-> TRUE, ema_trend |-> b]

\* ------------------------------------------------------- ComplexStrategy
Complex_default_stop == StoplossDefault

\* faulty variant: the elapsed seconds are compared with the timeout in minutes
Complex_timeout_reached_seconds(elapsed_minutes, timeout_minutes) ==
    elapsed_minutes * 60 >= timeout_minutes

Complex_timeout_reached(elapsed_minutes, timeout_minutes) ==
    elapsed_minutes >= timeout_minutes

\* the try block on the 1h dataframe
Complex_informative(dataframe) ==
    IF dataframe.status = "raise" THEN Failed
    ELSE IF dataframe.status = "none" \/ dataframe.bars = 0 THEN Failed
    ELSE LET ema50_1h == TalibEMA(dataframe, EmaPeriod)
         IN  Trend(Gt(Num(dataframe.close), ema50_1h))

\* the nested try block on the main timeframe: the ema50 column is read, never
\* computed, so a frame without it raises KeyError inside the try
Complex_main(dataframe) ==
    IF dataframe.status = "raise" THEN Failed
    ELSE IF dataframe.status = "none" \/ dataframe.bars = 0 THEN Failed
    ELSE IF ~dataframe.has_ema THEN Failed
    ELSE Trend(Gt(Num(dataframe.close), TalibEMA(dataframe, EmaPeriod)))

\* faulty variant: the slippage is applied in the wrong direction
simulate_slippage_swapped(price, is_buy, slippage) ==
    IF is_buy THEN price * (Scale - slippage) ELSE price * (Scale + slippage)

simulate_slippage(price, is_buy, slippage) ==
    IF is_buy THEN price * (Scale + slippage) ELSE price * (Scale - slippage)

calculate_fees(amount, fee) == amount * fee

Complex_adjusted_profit(tr, current_rate, current_slippage) ==
    LET trade_fee_open == calculate_fees(tr.open_rate * tr.amount, MakerFee)
        trade_fee_close == calculate_fees(current_rate * tr.amount, TakerFee)
        adjusted_current_rate_buy ==
            simulate_slippage(tr.open_rate, TRUE, current_slippage)
        adjusted_current_rate_sell ==
            simulate_slippage(current_rate, FALSE, current_slippage)
    IN  [buy |-> adjusted_current_rate_buy,
         sell |-> adjusted_current_rate_sell,
         profit |-> (adjusted_current_rate_sell - adjusted_current_rate_buy)
                        * tr.amount - (trade_fee_open + trade_fee_close)]

\* the three exit tests after the trend was obtained
Complex_decide(adjusted_profit, ema_trend, min_profit) ==
    IF adjusted_profit > 0 /\ ~ema_trend THEN ExitNow
    ELSE IF adjusted_profit >= min_profit THEN ExitNow
    ELSE IF adjusted_profit < 0 THEN ExitNow
    ELSE Complex_default_stop

Result(ret, raised, lookups, trend, buy, sell, profit) ==
    [ret |-> ret, raised |-> raised, lookups |-> lookups, ema_trend |-> trend,
     buy |-> buy, sell |-> sell, profit |-> profit]

TrendName(b) == IF b THEN "favorable" ELSE "unfavorable"

\* faulty variant: the innermost except branch re-raises
Complex_on_main_failure_reraise ==
    Result(Complex_default_stop, TRUE, <<"1h", "5m">>, "unknown", NaN, NaN, NaN)

\* the innermost except branch: log the error and hold, nothing is re-raised
Complex_on_main_failure ==
    Result(Complex_default_stop, FALSE, <<"1h", "5m">>, "unknown", NaN, NaN, NaN)

\* custom_stoploss as a whole; df_1h and df_main are what the two
\* get_pair_dataframe calls yield if they are made
ComplexStrategy_custom_stoploss(p, tr, elapsed_minutes, current_rate, df_1h, df_main) ==
    IF ~Complex_timeout_reached(elapsed_minutes, p.timeout_minutes)
    THEN Result(Complex_default_stop, FALSE, << >>, "unknown", NaN, NaN, NaN)
    ELSE LET inf == Complex_informative(df_1h)
             mn == Complex_main(df_main)
             adj == Complex_adjusted_profit(tr, current_rate, p.slippage)
         IN  IF inf.ok
             THEN Result(Complex_decide(adj.profit, inf.ema_trend, p.min_profit),
                         FALSE, <<"1h">>, TrendName(inf.ema_trend),
                         Num(adj.buy), Num(adj.sell), Num(adj.profit))
             ELSE IF mn.ok
             THEN Result(Complex_decide(adj.profit, mn.ema_trend, p.min_profit),
                         FALSE, <<"1h", "5m">>, TrendName(mn.ema_trend),
                         Num(adj.buy), Num(adj.sell), Num(adj.profit))
             ELSE Complex_on_main_failure

\* ------------------------------------------------ SampleStrategyEnhanced
Sample_default_stop == StoplossDefault

Sample_timeout_reached(elapsed_minutes, timeout_minutes) ==
    elapsed_minutes >= timeout_minutes

Sample_informative(dataframe) ==
    IF dataframe.status = "raise" THEN Failed
    ELSE IF dataframe.status = "none" \/ dataframe.bars = 0 THEN Failed
    ELSE LET ema50_1h == TalibEMA(dataframe, EmaPeriod)
         IN  Trend(Gt(Num(dataframe.close), ema50_1h))

Sample_main(dataframe) ==
    IF dataframe.status = "raise" THEN Failed
    ELSE IF dataframe.status = "none" \/ dataframe.bars = 0 THEN Failed
    ELSE IF ~dataframe.has_ema THEN Failed
    ELSE Trend(Gt(Num(dataframe.close), TalibEMA(dataframe, EmaPeriod)))

\* faulty variant: the minimum profit has to be exceeded, not reached
Sample_decide_strict(current_profit, ema_trend, min_profit) ==
    IF current_profit > 0 /\ ~ema_trend THEN ExitNow
    ELSE IF current_profit > min_profit THEN ExitNow
    ELSE IF current_profit < 0 THEN ExitNow
    ELSE Sample_default_stop

Sample_decide(current_profit, ema_trend, min_profit) ==
    IF current_profit > 0 /\ ~ema_trend THEN ExitNow
    ELSE IF current_profit >= min_profit THEN ExitNow
    ELSE IF current_profit < 0 THEN ExitNow
    ELSE Sample_default_stop

Sample_on_main_failure ==
    Result(Sample_default_stop, FALSE, <<"1h", "5m">>, "unknown", NaN, NaN, NaN)

SampleStrategyEnhanced_custom_stoploss(p, elapsed_minutes, current_profit, df_1h, df_main) ==
    IF ~Sample_timeout_reached(elapsed_minutes, p.timeout_minutes)
    THEN Result(Sample_default_stop, FALSE, << >>, "unknown", NaN, NaN, NaN)
    ELSE LET inf == Sample_informative(df_1h)
             mn == Sample_main(df_main)
         IN  IF inf.ok
             THEN Result(Sample_decide(current_profit, inf.ema_trend, p.min_profit),
                         FALSE, <<"1h">>, TrendName(inf.ema_trend),
                         NaN, NaN, Num(current_profit))
             ELSE IF mn.ok
             THEN Result(Sample_decide(current_profit, mn.ema_trend, p.min_profit),
                         FALSE, <<"1h", "5m">>, TrendName(mn.ema_trend),
                         NaN, NaN, Num(current_profit))
             ELSE Sample_on_main_failure

\* --------------------------------------------------- the position's ticks
Strategies == {"Complex", "Sample"}

ParamsOf(s) ==
    IF s = "Complex"
    THEN { [timeout_minutes |-> t, min_profit |-> MinProfitComplex, slippage |-> sl] :
             t \in {TimeoutLow, TimeoutDefault}, sl \in {SlippageLow, SlippageDefault} }
    ELSE { [timeout_minutes |-> t, min_profit |-> MinProfitSample, slippage |-> 0] :
             t \in {TimeoutLow, TimeoutDefault} }

Trades == [open_rate : OpenRates, amount : 1..MaxAmount]

\* the arguments and the outcome of the latest custom_stoploss call
Call(c, rate, profit, df_1h, df_main, r) ==
    [called |-> c, current_rate |-> rate, current_profit |-> profit,
     df_1h |-> df_1h, df_main |-> df_main, r |-> r]

NoCall ==
    Call(FALSE, 0, 0, NotFetched, NotFetched,
         Result(StoplossDefault, FALSE, << >>, "unknown", NaN, NaN, NaN))

\* no dataframe is being analyzed
NoSignals ==
    /\ signal_strategy = "none"
    /\ thresholds = << >>
    /\ index = 0
    /\ row = << >>
    /\ enter_long = NaN
    /\ exit_long = NaN

Init ==
    /\ strategy \in Strategies
    /\ params \in ParamsOf(strategy)
    /\ trade \in Trades
    /\ elapsed = 0
    /\ state = "HOLDING"
    /\ last = NoCall
    /\ NoSignals
    /\ NoFlexible

\* the host closes the position once a call returned 0
NextState(r) == IF ~r.raised /\ r.ret = ExitNow THEN "EXIT_NOW" ELSE "HOLDING"

\* the frames the data provider is asked for during one call
Asked(wanted) == IF wanted THEN Frames ELSE {NotFetched}

\* one host tick of an open ComplexStrategy position: TickMinutes later the
\* host calls custom_stoploss (current_profit is only logged and is left 0)
ComplexTick ==
    /\ strategy = "Complex"
    /\ state = "HOLDING"
    /\ elapsed + TickMinutes <= MaxElapsed
    /\ LET now == elapsed + TickMinutes
           reached == Complex_timeout_reached(now, params.timeout_minutes)
       IN  \E current_rate \in CurrentRates :
           \E df_1h \in Asked(reached) :
           \E df_main \in Asked(reached /\ ~Complex_informative(df_1h).ok) :
             LET r == ComplexStrategy_custom_stoploss(
                          params, trade, now, current_rate, df_1h, df_main)
             IN  /\ elapsed' = now
                 /\ last' = Call(TRUE, current_rate, 0, df_1h, df_main, r)
                 /\ state' = NextState(r)
    /\ UNCHANGED <<strategy, params, trade, signal_vars, flex_vars>>

\* one host tick of an open SampleStrategyEnhanced position (current_rate is
\* only logged and is left 0)
SampleTick ==
    /\ strategy = "Sample"
    /\ state = "HOLDING"
    /\ elapsed + TickMinutes <= MaxElapsed
    /\ LET now == elapsed + TickMinutes
           reached == Sample_timeout_reached(now, params.timeout_minutes)
       IN  \E current_profit \in Profits :
           \E df_1h \in Asked(reached) :
           \E df_main \in Asked(reached /\ ~Sample_informative(df_1h).ok) :
             LET r == SampleStrategyEnhanced_custom_stoploss(
                          params, now, current_profit, df_1h, df_main)
             IN  /\ elapsed' = now
                 /\ last' = Call(TRUE, 0, current_profit, df_1h, df_main, r)
                 /\ state' = NextState(r)
    /\ UNCHANGED <<strategy, params, trade, signal_vars, flex_vars>>

Next == ComplexTick \/ SampleTick

Spec == Init /\ [][Next]_vars

\* =================================================== entry / exit signals
\* first row at which each indicator is defined (talib / pandas warm-up)
RsiLookback == RsiPeriod
TemaLookback == 3 * (TemaPeriod - 1)
BbLookback == BbWindow - 1
AdxLookback == 2 * AdxPeriod - 1
MacdHistLookback == (MacdSlow - 1) + (MacdSignal - 1)
VolumeMeanLookback == VolumeWindow - 1

\* the value of a column at row i, and of column.shift(1) at row i
At(i, lookback, v) == IF i < lookback THEN NaN ELSE Num(v)
Shifted(i, lookback, v) == IF i - 1 < lookback THEN NaN ELSE Num(v)
Times(a, k) == IF IsNaN(a) THEN NaN ELSE Num(a[1] * k)

RsiValues == {40, 55, 80}
Levels == 1..MaxBand
AdxValues == {AdxDefault - 5, AdxDefault + 5}
MacdHistValues == {-1, 0, 2}

Row(rsi, rsi_prev, tema, tema_prev, mid, adx, hist, vol, vol_mean, close) ==
    [rsi |-> rsi, rsi_prev |-> rsi_prev, tema |-> tema, tema_prev |-> tema_prev,
     bb_middleband |-> mid, adx |-> adx, macdhist |-> hist, volume |-> vol,
     volume_mean |-> vol_mean, close |-> close]

\* rows of the dataframe populate_indicators of ComplexStrategy and of
\* SampleStrategyEnhanced produces (rsi, bollinger mid, tema)
TemaRows(i) ==
    { Row(At(i, RsiLookback, r), Shifted(i, RsiLookback, rp),
          At(i, TemaLookback, t), Shifted(i, TemaLookback, tp),
          At(i, BbLookback, m), NaN, NaN, Num(1), NaN, Num(1)) :
        r \in RsiValues, rp \in RsiValues, t \in Levels, tp \in Levels,
        m \in Levels }

\* rows of the dataframe populate_indicators of FlexibleStrategy produces
FlexibleRows(i) ==
    { Row(At(i, RsiLookback, r), NaN, NaN, NaN,
          At(i, BbLookback, 2), At(i, AdxLookback, a),
          At(i, MacdHistLookback, h), Num(v), At(i, VolumeMeanLookback, 1),
          Num(c)) :
        r \in RsiValues, a \in AdxValues, h \in MacdHistValues,
        v \in 1..2, c \in Levels }

\* qtpylib.crossed_above(series, value) at one row
crossed_above(cur, prev, value) == Gt(cur, Num(value)) /\ Le(prev, Num(value))

Flag(b) == IF b THEN Num(1) ELSE Num(0)

Complex_entry_rule(rw, th) ==
    /\ crossed_above(rw.rsi, rw.rsi_prev, th.buy_rsi)
    /\ Lt(rw.tema, rw.bb_middleband)
    /\ Gt(rw.tema, rw.tema_prev)

\* faulty variant: the exit rule is the entry rule pasted with sell_rsi
Complex_exit_rule_pasted(rw, th) ==
    /\ crossed_above(rw.rsi, rw.rsi_prev, th.sell_rsi)
    /\ Lt(rw.tema, rw.bb_middleband)
    /\ Gt(rw.tema, rw.tema_prev)

\* faulty variant: "TEMA downward" written as the negation of "TEMA not below its
\* previous value", which is true of an undefined previous value
Complex_exit_rule_negated(rw, th) ==
    /\ crossed_above(rw.rsi, rw.rsi_prev, th.sell_rsi)
    /\ Gt(rw.tema, rw.bb_middleband)
    /\ ~(Gt(rw.tema, rw.tema_prev) \/ rw.tema = rw.tema_prev)

Complex_exit_rule(rw, th) ==
    /\ crossed_above(rw.rsi, rw.rsi_prev, th.sell_rsi)
    /\ Gt(rw.tema, rw.bb_middleband)
    /\ Lt(rw.tema, rw.tema_prev)

Sample_entry_rule(rw, th) ==
    /\ crossed_above(rw.rsi, rw.rsi_prev, th.buy_rsi)
    /\ Lt(rw.tema, rw.bb_middleband)
    /\ Gt(rw.tema, rw.tema_prev)

Sample_exit_rule(rw, th) ==
    /\ crossed_above(rw.rsi, rw.rsi_prev, th.sell_rsi)
    /\ Gt(rw.tema, rw.bb_middleband)
    /\ Lt(rw.tema, rw.tema_prev)

Flexible_entry_rule(rw, th) ==
    /\ Lt(rw.rsi, Num(th.buy_rsi))
    /\ Gt(rw.adx, Num(th.adx_threshold))
    /\ Gt(rw.macdhist, Num(th.macd_hist_threshold))
    /\ Gt(rw.volume, Times(rw.volume_mean, th.volume_threshold))
    /\ Lt(rw.close, rw.bb_middleband)

Flexible_exit_rule(rw, th) ==
    /\ Gt(rw.rsi, Num(th.sell_rsi))
    /\ Lt(rw.macdhist, Num(0))
    /\ Gt(rw.close, rw.bb_middleband)

Thresholds(buy, sell, adx, hist, vol) ==
    [buy_rsi |-> buy, sell_rsi |-> sell, adx_threshold |-> adx,
     macd_hist_threshold |-> hist, volume_threshold |-> vol]

ThresholdsOf(s) ==
    IF s = "Flexible"
    THEN { Thresholds(b, sl, AdxDefault, h, VolumeThresholdDefault) :
             b \in {FlexBuyRsiDefault, FlexBuyRsiHigh},
             sl \in {FlexSellRsiLow, FlexSellRsiDefault},
             h \in {MacdHistLow, MacdHistDefault} }
    ELSE { Thresholds(BuyRsiHigh, sl, 0, 0, 0) :
             sl \in {SellRsiLow, SellRsiDefault} }

RowsOf(s, i) == IF s = "Flexible" THEN FlexibleRows(i) ELSE TemaRows(i)

SignalStrategies == {"Complex", "Sample", "Flexible"}

\* a dataframe row right after populate_indicators, no signal column yet
InitSignals ==
    /\ strategy = "Complex"
    /\ params = [timeout_minutes |-> TimeoutDefault,
                 min_profit |-> MinProfitComplex, slippage |-> SlippageDefault]
    /\ trade = [open_rate |-> 100, amount |-> 1]
    /\ elapsed = 0
    /\ state = "HOLDING"
    /\ last = NoCall
    /\ signal_strategy \in SignalStrategies
    /\ thresholds \in ThresholdsOf(signal_strategy)
    /\ index \in 0..MaxIndex
    /\ row \in RowsOf(signal_strategy, index)
    /\ enter_long = NaN
    /\ exit_long = NaN
    /\ NoFlexible

populate_entry_trend(fires) ==
    /\ IsNaN(enter_long)
    /\ enter_long' = Flag(fires)
    /\ UNCHANGED <<stop_vars, flex_vars, signal_strategy, thresholds, index, row, exit_long>>

populate_exit_trend(fires) ==
    /\ ~IsNaN(enter_long)
    /\ IsNaN(exit_long)
    /\ exit_long' = Flag(fires)
    /\ UNCHANGED <<stop_vars, flex_vars, signal_strategy, thresholds, index, row, enter_long>>

ComplexEntry == signal_strategy = "Complex" /\ populate_entry_trend(Complex_entry_rule(row, thresholds))
ComplexExit == signal_strategy = "Complex" /\ populate_exit_trend(Complex_exit_rule(row, thresholds))
SampleEntry == signal_strategy = "Sample" /\ populate_entry_trend(Sample_entry_rule(row, thresholds))
SampleExit == signal_strategy = "Sample" /\ populate_exit_trend(Sample_exit_rule(row, thresholds))
FlexibleEntry == signal_strategy = "Flexible" /\ populate_entry_trend(Flexible_entry_rule(row, thresholds))
FlexibleExit == signal_strategy = "Flexible" /\ populate_exit_trend(Flexible_exit_rule(row, thresholds))

NextSignals ==
    \/ ComplexEntry \/ ComplexExit
    \/ SampleEntry \/ SampleExit
    \/ FlexibleEntry \/ FlexibleExit

SpecSignals == InitSignals /\ [][NextSignals]_vars

\* ======================================== FlexibleStrategy stake / stoploss
\* what dp.get_analyzed_dataframe(pair, self.timeframe) yields: None, or a
\* dataframe of `bars` rows (0 rows: empty) with the last values of the rsi,
\* atr and atr.rolling(20).mean() columns
Analyzed(st, b, rsi, atr, atr_mean) ==
    [status |-> st, bars |-> b, rsi |-> rsi, atr |-> atr, atr_mean |-> atr_mean]
NoAnalyzed == Analyzed("none", 0, NaN, NaN, NaN)
EmptyAnalyzed == Analyzed("ok", 0, NaN, NaN, NaN)
HasData(dataframe) == dataframe.status # "none" /\ dataframe.bars > 0

\* last RSI readings: undefined, below, at and above the threshold
RsiReadings ==
    {NaN, Num(StakeRsiThreshold - 10), Num(StakeRsiThreshold),
     Num(StakeRsiThreshold + 10)}

\* custom_stake_amount; `dataframe` is the analyzed dataframe of
\* self.timeframe, the only one the hook fetches.  max_stake is even in every
\* call made here, so max_stake * 0.5 is max_stake \div 2 exactly
Flexible_custom_stake_amount(dataframe, proposed_stake, max_stake) ==
    IF HasData(dataframe) /\ Gt(dataframe.rsi, Num(StakeRsiThreshold))
    THEN max_stake \div 2
    ELSE proposed_stake

StakeFrames ==
    {NoAnalyzed, EmptyAnalyzed} \cup { Analyzed("ok", 1, r, NaN, NaN) : r \in RsiReadings }

\* the arguments of custom_stake_amount (min_stake given,
\* min_stake <= proposed_stake <= max_stake) and the data provider's frames:
\* `dataframe` of the strategy timeframe, `rsi_1h` the last RSI of the 1h
\* informative timeframe
StakeCalls ==
    { [dataframe |-> d, rsi_1h |-> r1h, proposed_stake |-> ps,
       min_stake |-> mn, max_stake |-> 2 * h] :
        d \in StakeFrames, r1h \in RsiReadings, h \in 1..MaxHalfStake,
        mn \in 1..(2 * MaxHalfStake), ps \in 1..(2 * MaxHalfStake) }

\* faulty variant: the looser of the two candidates is kept
PyMin(a, b) == IF Lt(b, a) THEN b ELSE a

\* Python's max(a, b) on floats: b only if b > a, so a NaN b leaves a
PyMax(a, b) == IF Gt(b, a) THEN b ELSE a

\* the candidate -(atr / current_rate * k) with k given in tenths; the calls
\* made here have rates and ATRs for which the quotient is a whole number of
\* 1/Scale
AtrStop(atr, current_rate, tenths) ==
    IF IsNaN(atr) THEN NaN
    ELSE Num(-((atr[1] * tenths * Scale) \div (10 * current_rate)))

\* custom_stoploss of FlexibleStrategy
Flexible_custom_stoploss(dataframe, current_rate, current_profit) ==
    IF HasData(dataframe)
    THEN LET atr == dataframe.atr
             atr_mean == dataframe.atr_mean
             stoploss == IF Gt(Times(atr, 10), Times(atr_mean, 15))
                         THEN Num(FlexStoplossWide)
                         ELSE Num(FlexStoplossDefault)
         IN  IF current_profit > ProfitHigh
             THEN PyMax(stoploss, AtrStop(atr, current_rate, 15))
             ELSE IF current_profit < ProfitLow
             THEN PyMax(stoploss, AtrStop(atr, current_rate, 20))
             ELSE stoploss
    ELSE Num(FlexStoplossDefault)

\* last ATR and its 20-row rolling mean; the mean of an undefined ATR is
\* undefined, and the mean is undefined on its own while fewer than 20 ATR
\* values exist
AtrFrames ==
    {NoAnalyzed, EmptyAnalyzed}
    \cup { Analyzed("ok", 1, NaN, a, m) :
             a \in {Num(0), Num(2), Num(5), Num(8), Num(16)},
             m \in {NaN, Num(2), Num(5), Num(10)} }
    \cup { Analyzed("ok", 1, NaN, NaN, NaN) }

StoplossCalls ==
    { [dataframe |-> d, current_rate |-> r, current_profit |-> cp] :
        d \in AtrFrames, r \in {100, 200},
        cp \in {-100, ProfitLow - 100, ProfitLow, ProfitLow + 200,
                 ProfitHigh, ProfitHigh + 100} }

IdlePosition ==
    /\ strategy = "Complex"
    /\ params = [timeout_minutes |-> TimeoutDefault,
                 min_profit |-> MinProfitComplex, slippage |-> SlippageDefault]
    /\ trade = [open_rate |-> 100, amount |-> 1]
    /\ elapsed = 0
    /\ state = "HOLDING"
    /\ last = NoCall

InitFlexible ==
    /\ IdlePosition
    /\ NoSignals
    /\ flex_hook \in {"custom_stake_amount", "custom_stoploss"}
    /\ flex_in \in IF flex_hook = "custom_stake_amount"
                    THEN {c \in StakeCalls :
                            c.min_stake <= c.proposed_stake
                            /\ c.proposed_stake <= c.max_stake}
                    ELSE StoplossCalls
    /\ flex_out = NaN

FlexibleStake ==
    /\ flex_hook = "custom_stake_amount"
    /\ IsNaN(flex_out)
    /\ flex_out' = Num(Flexible_custom_stake_amount(
                           flex_in.dataframe, flex_in.proposed_stake,
                           flex_in.max_stake))
    /\ UNCHANGED <<stop_vars, signal_vars, flex_hook, flex_in>>

FlexibleStoploss ==
    /\ flex_hook = "custom_stoploss"
    /\ IsNaN(flex_out)
    /\ flex_out' = Flexible_custom_stoploss(
                       flex_in.dataframe, flex_in.current_rate,
                       flex_in.current_profit)
    /\ UNCHANGED <<stop_vars, signal_vars, flex_hook, flex_in>>

NextFlexible == FlexibleStake \/ FlexibleStoploss

SpecFlexible == InitFlexible /\ [][NextFlexible]_vars

\* ============================================================ properties
\* the latest call was made with the timeout elapsed / not yet elapsed
Reached == last.called /\ elapsed >= params.timeout_minutes
NotReached == last.called /\ elapsed < params.timeout_minutes

Unavailable(df) == df.status \in {"raise", "none"} \/ (df.status = "ok" /\ df.bars = 0)
Available(df) == df.status = "ok" /\ df.bars > 0

\* last close above the EMA50 of the frame, the EMA being defined
CloseAboveEma(df) == df.bars >= EmaPeriod /\ df.close > df.level

\* the profit the exit tests are made on: the adjusted profit in closed form
\* for ComplexStrategy, current_profit for SampleStrategyEnhanced
UsedProfit ==
    IF strategy = "Complex"
    THEN trade.amount * (last.current_rate * (Scale - params.slippage - TakerFee)
                         - trade.open_rate * (Scale + params.slippage + MakerFee))
    ELSE last.current_profit

\* the first-match decision table of the specification
Table(profit, unfavorable, min_profit) ==
    IF profit > 0 /\ unfavorable THEN 0
    ELSE IF profit >= min_profit THEN 0
    ELSE IF profit < 0 THEN 0
    ELSE -300

Held == last.r.ret = -300 /\ ~last.r.raised /\ state = "HOLDING"

\* C1: at every tick made before timeout_minutes have elapsed the call
\* returns the static floor -0.03 (HOLDING), whatever the rate and profit, and
\* a position is never in EXIT_NOW before its timeout has elapsed.
C1_HoldBeforeTimeout ==
    /\ NotReached => Held
    /\ state = "EXIT_NOW" => elapsed >= params.timeout_minutes

C1_Witness ==
    /\ NotReached
    /\ strategy = "Sample"
    /\ last.current_profit >= params.min_profit
    /\ last.r.ret = -300

C3_HoldWithoutData ==
    (Reached /\ Unavailable(last.df_1h) /\ Unavailable(last.df_main)) => Held

C3_Witness ==
    /\ Reached
    /\ strategy = "Complex"
    /\ last.df_1h = Raises
    /\ last.df_main = EmptyFrame
    /\ UsedProfit >= params.min_profit
    /\ Held

\* C4: with the timeout elapsed, the 1h series unavailable and the main
\* series non-empty, the trend is "last close above EMA50" of the main series
\* and the return value follows the table on it; the main series is fetched
\* only when the 1h lookup failed.
C4_PrimaryFallback ==
    /\ (Reached /\ Unavailable(last.df_1h) /\ Available(last.df_main)) =>
          /\ last.r.ema_trend = TrendName(CloseAboveEma(last.df_main))
          /\ last.r.ret = Table(UsedProfit, ~CloseAboveEma(last.df_main),
                                params.min_profit)
    /\ (Reached /\ Available(last.df_1h)) => last.df_main = NotFetched

\* C5: with the timeout elapsed and a favorable trend the call returns
\* -0.03 (HOLDING), whatever the profit.
C5_FavorableHolds ==
    (Reached /\ last.r.ema_trend = "favorable") => Held

\* C6: with the timeout elapsed and a trend that is not favorable the call
\* returns 0 (EXIT_NOW), whatever the profit, a profit of zero included.
C6_UnfavorableExits ==
    (Reached /\ last.r.ema_trend = "unfavorable") =>
        (last.r.ret = 0 /\ state = "EXIT_NOW")

\* the series the trend was read from is non-empty but shorter than the
\* EMA window, so its EMA50 at the last row is undefined
EmaUndefined ==
    \/ Available(last.df_1h) /\ last.df_1h.bars < EmaPeriod
    \/ /\ Unavailable(last.df_1h)
       /\ Available(last.df_main)
       /\ last.df_main.bars < EmaPeriod

\* C9: with the timeout elapsed and the EMA50 of the retrieved series
\* undefined at its last row the call returns -0.03 (HOLDING), whatever the
\* profit.
C9_UndefinedEmaHolds == (Reached /\ EmaUndefined) => Held

\* C10: the adjusted profit of ComplexStrategy is (sell price after slippage
\* - buy price after slippage) * amount - (open fee + close fee); for
\* open_rate 100, current_rate 110, amount 1, slippage 0.001 and fees 0.001
\* the buy price is 100.1, the sell price 109.89 and the profit 9.58.
C10_AdjustedProfit ==
    (strategy = "Complex" /\ Reached /\ ~IsNaN(last.r.profit)) =>
        /\ last.r.buy = Num(trade.open_rate * (Scale + params.slippage))
        /\ last.r.sell = Num(last.current_rate * (Scale - params.slippage))
        /\ last.r.profit =
              Num((last.r.sell[1] - last.r.buy[1]) * trade.amount
                  - (trade.open_rate * trade.amount * MakerFee
                     + trade.amount * last.current_rate * TakerFee))
        /\ ( /\ trade.open_rate = 100
             /\ last.current_rate = 110
             /\ trade.amount = 1
             /\ params.slippage = 10 ) =>
                /\ last.r.buy = Num(1001000)
                /\ last.r.sell = Num(1098900)
                /\ last.r.profit = Num(95800)

C10_Witness ==
    /\ strategy = "Complex"
    /\ Reached
    /\ trade.open_rate = 100
    /\ last.current_rate = 110
    /\ trade.amount = 1
    /\ params.slippage = 10
    /\ last.r.profit = Num(95800)

\* the indicators the rules of the strategy read at this row
RuleInputs ==
    IF signal_strategy = "Flexible"
    THEN {row.rsi, row.adx, row.macdhist, row.bb_middleband, row.volume_mean}
    ELSE {row.rsi, row.rsi_prev, row.tema, row.tema_prev, row.bb_middleband}

\* C7: enter_long and exit_long are never both 1 at the same row, in each of
\* the three strategies and for every threshold setting (buy_rsi above
\* sell_rsi and macd_hist_threshold = 0 included).
C7_NeverBoth == ~(enter_long = Num(1) /\ exit_long = Num(1))

C7_Witness ==
    /\ signal_strategy = "Flexible"
    /\ thresholds.buy_rsi = 60
    /\ thresholds.sell_rsi = 50
    /\ thresholds.macd_hist_threshold = 0
    /\ row.rsi = Num(55)
    /\ enter_long = Num(1)
    /\ exit_long = Num(0)

\* C8: at a row where an indicator read by the rules is undefined (warm-up
\* not complete) neither enter_long nor exit_long is 1.
C8_UndefinedNeverFlags ==
    (NaN \in RuleInputs) => (enter_long # Num(1) /\ exit_long # Num(1))

C8_Witness ==
    /\ signal_strategy = "Complex"
    /\ IsNaN(row.tema_prev)
    /\ crossed_above(row.rsi, row.rsi_prev, thresholds.sell_rsi)
    /\ Gt(row.tema, row.bb_middleband)
    /\ enter_long = Num(0)
    /\ exit_long = Num(0)

\* ------------------------------------------- FlexibleStrategy properties
StakeDone == flex_hook = "custom_stake_amount" /\ ~IsNaN(flex_out)
StoplossDone == flex_hook = "custom_stoploss" /\ ~IsNaN(flex_out)

\* C11: for min_stake <= proposed_stake <= max_stake the stake returned by
\* custom_stake_amount lies in [min_stake, max_stake], whatever the RSI and
\* the data, min_stake > max_stake / 2 included.
C11_StakeInRange ==
    StakeDone =>
        (flex_in.min_stake <= flex_out[1] /\ flex_out[1] <= flex_in.max_stake)

\* C12: custom_stake_amount returns half of max_stake exactly when the last
\* RSI of the 1h timeframe is above 50 and proposed_stake otherwise, and the
\* stake does not depend on the RSI of the strategy timeframe.
C12_StakeFromSecondaryRsi ==
    StakeDone =>
        /\ flex_out = IF Gt(flex_in.rsi_1h, Num(50))
                      THEN Num(flex_in.max_stake \div 2)
                      ELSE Num(flex_in.proposed_stake)
        /\ \A d \in StakeFrames :
              HasData(d) /\ HasData(flex_in.dataframe) =>
                Num(Flexible_custom_stake_amount(
                        d, flex_in.proposed_stake, flex_in.max_stake)) = flex_out

\* the base floor of the claim: -0.20 if the last ATR is above 1.5 times its
\* rolling mean, -0.10 otherwise (no data and undefined values included)
BaseFloor ==
    LET d == flex_in.dataframe
    IN  IF HasData(d) /\ ~IsNaN(d.atr) /\ ~IsNaN(d.atr_mean)
           /\ 2 * d.atr[1] > 3 * d.atr_mean[1]
        THEN -2000 ELSE -1000

Larger(a, b) == IF a >= b THEN a ELSE b

C14_LoosenedBelowFivePercent ==
    ( /\ StoplossDone
      /\ HasData(flex_in.dataframe)
      /\ ~IsNaN(flex_in.dataframe.atr)
      /\ flex_in.current_profit < 500 ) =>
        LET rate == flex_in.current_rate
            candidate == -20000 * flex_in.dataframe.atr[1]
        IN  /\ flex_out[1] <= BaseFloor
            /\ candidate < BaseFloor * rate => flex_out[1] * rate = candidate

\* the call of the latest tick repeated with another trade.amount
WithAmount(a) ==
    ComplexStrategy_custom_stoploss(
        params, [trade EXCEPT !.amount = a], elapsed, last.current_rate,
        last.df_1h, last.df_main)

\* C15: the decision of ComplexStrategy.custom_stoploss is the same for every
\* positive trade.amount, and with slippage 0 and fee rates 0 it is the
\* decision of SampleStrategyEnhanced on
\* current_profit = (current_rate - open_rate) / open_rate with the same
\* min_profit (both sides of its tests multiplied by open_rate > 0).
C15_MinProfitIsAFraction ==
    (strategy = "Complex" /\ Reached /\ last.r.ema_trend # "unknown") =>
        /\ \A a \in 1..MaxAmount : WithAmount(a).ret = last.r.ret
        /\ LET unslipped ==
                   (simulate_slippage(last.current_rate, FALSE, 0)
                      - simulate_slippage(trade.open_rate, TRUE, 0)) * trade.amount
                   - (calculate_fees(trade.open_rate * trade.amount, 0)
                      + calculate_fees(last.current_rate * trade.amount, 0))
               trend == last.r.ema_trend = "favorable"
           IN  Complex_decide(unslipped, trend, params.min_profit) =
                 Sample_decide((last.current_rate - trade.open_rate) * Scale,
                               trend, params.min_profit * trade.open_rate)

====
